---- MODULE Spec2Model ----
(***************************************************************************)
(* DNS configuration compiler of infra/conf/dns.go:                        *)
(* NameServerConfig.Build and DNSConfig.Build, with the external parsers   *)
(* and list loader as nondeterministic collaborators whose answers are     *)
(* logged.  Go strings are TLA+ strings, bytes are compared by ASCII code. *)
(***************************************************************************)
EXTENDS Integers, Sequences, FiniteSets, TLC

VARIABLES c, pc, config, i, domains, ret, parsed, loads, origin

vars == <<c, pc, config, i, domains, ret, parsed, loads, origin>>

\* ---------------------------------------------------------------- bounds
MaxServers == 2
MaxHosts == 2
MaxParsed == 2
MaxItems == 2

\* ------------------------------------------------------- Go nil, errors
Nil == [nil |-> TRUE]

newError(msg, args) == [msg |-> msg, args |-> args, base |-> Nil]

Base(err, inner) == [err EXCEPT !.base = inner]

\* ---------------------------------------------------------------- strings
\* printable ASCII without the backquote: codes 32..95, then 97..126
AsciiLow == " !\"#$%&'()*+,-./0123456789:;<=>?@ABCDEFGHIJKLMNOPQRSTUVWXYZ[\\]^_"

AsciiHigh == "abcdefghijklmnopqrstuvwxyz{|}~"

At(s, k) == SubSeq(s, k, k)

\* the byte value of each character
Codes ==
  [ch \in { At(AsciiLow, k) : k \in 1..Len(AsciiLow) } \cup { At(AsciiHigh, k) : k \in 1..Len(AsciiHigh) } |->
     IF \E k \in 1..Len(AsciiLow) : At(AsciiLow, k) = ch
     THEN 31 + (CHOOSE k \in 1..Len(AsciiLow) : At(AsciiLow, k) = ch)
     ELSE 96 + (CHOOSE k \in 1..Len(AsciiHigh) : At(AsciiHigh, k) = ch)]

Code(ch) == Codes[ch]

Chr(n) == IF n <= 95 THEN At(AsciiLow, n - 31) ELSE At(AsciiHigh, n - 96)

ToLowerByte(ch) == IF Code(ch) \in 65..90 THEN Chr(Code(ch) + 32) ELSE ch

RECURSIVE ToLower(_)
ToLower(s) == IF s = "" THEN "" ELSE ToLowerByte(At(s, 1)) \o ToLower(SubSeq(s, 2, Len(s)))

HasPrefix(s, prefix) == Len(s) >= Len(prefix) /\ SubSeq(s, 1, Len(prefix)) = prefix

Contains(s, substr) == \E k \in 1..(Len(s) - Len(substr) + 1) : SubSeq(s, k, k + Len(substr) - 1) = substr

From(s, n) == SubSeq(s, n + 1, Len(s))

RECURSIVE Split(_, _)
Split(s, sep) ==
  IF ~Contains(s, sep) THEN <<s>>
  ELSE LET k == CHOOSE k \in 1..Len(s) : At(s, k) = sep /\ \A j \in 1..(k - 1) : At(s, j) # sep
       IN  <<SubSeq(s, 1, k - 1)>> \o Split(SubSeq(s, k + 1, Len(s)), sep)

RECURSIVE StrLess(_, _)
StrLess(a, b) ==
  IF b = "" THEN FALSE
  ELSE IF a = "" THEN TRUE
  ELSE IF At(a, 1) # At(b, 1) THEN Code(At(a, 1)) < Code(At(b, 1))
  ELSE StrLess(SubSeq(a, 2, Len(a)), SubSeq(b, 2, Len(b)))

RECURSIVE insert(_, _)
insert(sorted, s) ==
  IF sorted = <<>> THEN <<s>>
  ELSE IF StrLess(s, Head(sorted)) THEN <<s>> \o sorted
  ELSE <<Head(sorted)>> \o insert(Tail(sorted), s)

\* the keys left in the order the map yielded them
SortStringsUnsorted(list) == list

RECURSIVE SortStrings(_)
SortStrings(list) ==
  IF list = <<>> THEN <<>> ELSE insert(SortStrings(SubSeq(list, 1, Len(list) - 1)), list[Len(list)])

\* -------------------------------------------------------------- addresses
\* a family test that takes a domain name for an IP
IsIPOrDomain(family) == family \in {"IPv4", "IPv6", "Domain"}

IsIP(family) == family \in {"IPv4", "IPv6"}

AddressBuild(addr) ==
  IF IsIP(addr.family) THEN [Ip |-> addr.ip, Domain |-> ""] ELSE [Ip |-> <<>>, Domain |-> addr.domain]

\* String() of a domain address is the domain; the code calls it for no other
AddressString(addr) == addr.domain

\* ------------------------------------------------ external collaborators
\* what conf.ParseDomainRule may return for one rule: an error or matchers
ParsedDomains == { [Type |-> "Full", Value |-> "x.com"], [Type |-> "Subdomain", Value |-> "y.com"] }

SeqsUpTo(S, n) == UNION { [1..k -> S] : k \in 0..n }

ParseDomainRuleResults ==
  { [err |-> newError("parse failure", <<>>), domains |-> <<>>] }
    \cup { [err |-> Nil, domains |-> d] : d \in SeqsUpTo(ParsedDomains, MaxParsed) }

\* what geoip.ParaseIPList may return for the expected-IP strings
ParaseIPListResults(expectIPs) ==
  { [err |-> newError("parse failure", <<>>), list |-> <<>>],
    [err |-> Nil, list |-> [k \in 1..Len(expectIPs) |-> [Cidr |-> expectIPs[k]]]] }

\* what geosite.LoadGeositeWithAttr may return: an error or the list's items
GeositeDomains == { [Type |-> "Full", Value |-> "x.cn"], [Type |-> "Subdomain", Value |-> "y.cn"] }

LoadGeositeWithAttrResults ==
  { [err |-> newError("load failure", <<>>), domains |-> <<>>] }
    \cup { [err |-> Nil, domains |-> d] : d \in SeqsUpTo(GeositeDomains, MaxItems) }

\* ------------------------------------------------ NameServerConfig.Build
\* a record that assumes one matcher per rule
originalRuleOne(rule, parsedDomain) == [Rule |-> rule, Size |-> 1]

\* lines 69-72: the provenance record of one rule
originalRule(rule, parsedDomain) == [Rule |-> rule, Size |-> Len(parsedDomain)]

\* the loop over c.Domains from rule k on; answers[k] is the parser's answer
RECURSIVE parseRules(_, _, _, _, _)
parseRules(rules, answers, k, doms, originalRules) ==
  IF k > Len(rules)
  THEN [err |-> Nil, domains |-> doms, originalRules |-> originalRules, calls |-> SubSeq(answers, 1, Len(rules))]
  ELSE LET parsedDomain == answers[k].domains
       IN  IF answers[k].err # Nil
           THEN [err |-> Base(newError("invalid domain rule: ", <<rules[k]>>), answers[k].err),
                 domains |-> <<>>, originalRules |-> <<>>, calls |-> SubSeq(answers, 1, k)]
           ELSE parseRules(rules, answers, k + 1,
                           doms \o [j \in 1..Len(parsedDomain) |->
                                      [Type |-> parsedDomain[j].Type, Value |-> parsedDomain[j].Value]],
                           Append(originalRules, originalRule(rules[k], parsedDomain)))

NameServerBuild(server, answers, geoip) ==
  IF server.Address = Nil
  THEN [ns |-> Nil, err |-> newError("NameServer address is not specified.", <<>>), calls |-> <<>>]
  ELSE LET r == parseRules(server.Domains, answers, 1, <<>>, <<>>)
       IN  IF r.err # Nil THEN [ns |-> Nil, err |-> r.err, calls |-> r.calls]
           ELSE IF geoip.err # Nil
           THEN [ns |-> Nil, err |-> Base(newError("invalid IP rule: ", server.ExpectIPs), geoip.err),
                 calls |-> r.calls]
           ELSE [ns |-> [Address |-> [Network |-> "UDP", Address |-> AddressBuild(server.Address),
                                      Port |-> server.Port],
                         PrioritizedDomain |-> r.domains,
                         Geoip |-> geoip.list,
                         OriginalRules |-> r.originalRules],
                 err |-> Nil, calls |-> r.calls]

\* ------------------------------------------------------- DNSConfig.Build
getHostMapping(addr) ==
  IF IsIP(addr.family)
  THEN [Ip |-> <<addr.ip>>, ProxiedDomain |-> "", Type |-> "Full", Domain |-> ""]
  ELSE [Ip |-> <<>>, ProxiedDomain |-> addr.domain, Type |-> "Full", Domain |-> ""]

\* the alias table matched without lower-casing
QueryStrategyExact(s) ==
  IF s \in {"useip4", "useipv4", "use_ip4", "use_ipv4", "use_ip_v4", "use-ip4", "use-ipv4", "use-ip-v4"}
  THEN "USE_IP4"
  ELSE IF s \in {"useip6", "useipv6", "use_ip6", "use_ipv6", "use_ip_v6", "use-ip6", "use-ipv6", "use-ip-v6"}
  THEN "USE_IP6"
  ELSE "USE_IP"

QueryStrategy(s) ==
  LET l == ToLower(s)
  IN  IF l \in {"useip", "use_ip", "use-ip"} THEN "USE_IP"
      ELSE IF l \in {"useip4", "useipv4", "use_ip4", "use_ipv4", "use_ip_v4", "use-ip4", "use-ipv4", "use-ip-v4"}
      THEN "USE_IP4"
      ELSE IF l \in {"useip6", "useipv6", "use_ip6", "use_ipv6", "use_ip_v6", "use-ip6", "use-ipv6", "use-ip-v6"}
      THEN "USE_IP6"
      ELSE "USE_IP"

\* a single mapping that keeps the zero matching type
oneMappingFull(addr, type, value) ==
  [err |-> Nil, mappings |-> <<[getHostMapping(addr) EXCEPT !.Domain = value]>>, calls |-> <<>>]

oneMapping(addr, type, value) ==
  [err |-> Nil, mappings |-> <<[getHostMapping(addr) EXCEPT !.Type = type, !.Domain = value]>>, calls |-> <<>>]

failed(err, calls) == [err |-> err, mappings |-> <<>>, calls |-> calls]

\* list mappings that all take the first item's type
listMappingsOneType(addr, loaded) ==
  [k \in 1..Len(loaded) |-> [getHostMapping(addr) EXCEPT !.Type = loaded[1].Type, !.Domain = loaded[k].Value]]

listMappings(addr, loaded) ==
  [k \in 1..Len(loaded) |-> [getHostMapping(addr) EXCEPT !.Type = loaded[k].Type, !.Domain = loaded[k].Value]]

\* a dotless rule that never looks for a dot
dotlessMappingAnySubstr(addr, substr) ==
  IF substr = "" THEN oneMapping(addr, "Regex", "^[^.]*$")
  ELSE oneMapping(addr, "Regex", "^[^.]*" \o substr \o "[^.]*$")

\* lines 214-224
dotlessMapping(addr, substr) ==
  IF substr = "" THEN oneMapping(addr, "Regex", "^[^.]*$")
  ELSE IF ~Contains(substr, ".") THEN oneMapping(addr, "Regex", "^[^.]*" \o substr \o "[^.]*$")
  ELSE failed(newError("substr in dotless rule should not contain a dot: ", <<substr>>), <<>>)

\* an external resource that only needs at least two parts
extMappingsAtLeastTwo(domain, addr, lr) ==
  LET kv == Split(From(domain, 4), ":")
  IN  IF Len(kv) < 2 THEN failed(newError("invalid external resource: ", <<domain>>), <<>>)
      ELSE LET filename == kv[1]
               list == kv[2]
               call == [file |-> filename, list |-> list, result |-> lr]
           IN  IF lr.err # Nil
               THEN failed(Base(newError("failed to load domain list: ", <<list, " from ", filename>>), lr.err),
                           <<call>>)
               ELSE [err |-> Nil, mappings |-> listMappings(addr, lr.domains), calls |-> <<call>>]

\* lines 227-242
extMappings(domain, addr, lr) ==
  LET kv == Split(From(domain, 4), ":")
  IN  IF Len(kv) # 2 THEN failed(newError("invalid external resource: ", <<domain>>), <<>>)
      ELSE LET filename == kv[1]
               list == kv[2]
               call == [file |-> filename, list |-> list, result |-> lr]
           IN  IF lr.err # Nil
               THEN failed(Base(newError("failed to load domain list: ", <<list, " from ", filename>>), lr.err),
                           <<call>>)
               ELSE [err |-> Nil, mappings |-> listMappings(addr, lr.domains), calls |-> <<call>>]

\* the body of the loop over the sorted keys; lr is the loader's answer if asked
hostMappings(domain, addr, lr) ==
  CASE HasPrefix(domain, "domain:") ->
         LET domainName == From(domain, 7)
         IN  IF Len(domainName) = 0 THEN failed(newError("empty domain type of rule: ", <<domain>>), <<>>)
             ELSE oneMapping(addr, "Subdomain", domainName)
    [] HasPrefix(domain, "geosite:") ->
         LET listName == From(domain, 8)
             call == [file |-> "geosite.dat", list |-> listName, result |-> lr]
         IN  IF Len(listName) = 0 THEN failed(newError("empty geosite rule: ", <<domain>>), <<>>)
             ELSE IF lr.err # Nil
             THEN failed(Base(newError("failed to load geosite: ", <<listName>>), lr.err), <<call>>)
             ELSE [err |-> Nil, mappings |-> listMappings(addr, lr.domains), calls |-> <<call>>]
    [] HasPrefix(domain, "regexp:") ->
         LET regexpVal == From(domain, 7)
         IN  IF Len(regexpVal) = 0 THEN failed(newError("empty regexp type of rule: ", <<domain>>), <<>>)
             ELSE oneMapping(addr, "Regex", regexpVal)
    [] HasPrefix(domain, "keyword:") ->
         LET keywordVal == From(domain, 8)
         IN  IF Len(keywordVal) = 0 THEN failed(newError("empty keyword type of rule: ", <<domain>>), <<>>)
             ELSE oneMapping(addr, "Keyword", keywordVal)
    [] HasPrefix(domain, "full:") ->
         LET fullVal == From(domain, 5)
         IN  IF Len(fullVal) = 0 THEN failed(newError("empty full domain type of rule: ", <<domain>>), <<>>)
             ELSE oneMapping(addr, "Full", fullVal)
    [] HasPrefix(domain, "dotless:") -> dotlessMapping(addr, From(domain, 8))
    [] HasPrefix(domain, "ext:") -> extMappings(domain, addr, lr)
    [] OTHER -> oneMapping(addr, "Full", domain)

\* an error returned together with the configuration built so far
returnErrorWithConfig(err) == [config |-> config, err |-> err]

\* return nil, err
returnError(err) == [config |-> Nil, err |-> err]

\* every order in which ranging over a Go map may yield its keys
KeyOrders(hosts) ==
  { order \in [1..Cardinality(DOMAIN hosts) -> DOMAIN hosts] :
      \A a, b \in DOMAIN order : a # b => order[a] # order[b] }

\* lines 116-136: the client IP and the query strategy
Start ==
  /\ pc = "start"
  /\ IF c.ClientIP # Nil /\ ~IsIP(c.ClientIP.family)
     THEN /\ config' = [Tag |-> c.Tag, DisableCache |-> c.DisableCache, ClientIp |-> <<>>,
                        QueryStrategy |-> "USE_IP", NameServer |-> <<>>, StaticHosts |-> <<>>]
          /\ ret' = returnError(newError("not an IP address:", <<AddressString(c.ClientIP)>>))
          /\ pc' = "done"
          /\ UNCHANGED i
     ELSE /\ config' = [Tag |-> c.Tag, DisableCache |-> c.DisableCache,
                        ClientIp |-> IF c.ClientIP # Nil THEN c.ClientIP.ip ELSE <<>>,
                        QueryStrategy |-> QueryStrategy(c.QueryStrategy),
                        NameServer |-> <<>>, StaticHosts |-> <<>>]
          /\ pc' = "servers"
          /\ i' = 1
          /\ UNCHANGED ret
  /\ UNCHANGED <<c, domains, parsed, loads, origin>>

\* lines 138-144: one pass of the loop over c.Servers
BuildServer ==
  /\ pc = "servers"
  /\ i <= Len(c.Servers)
  /\ \E answers \in [1..Len(c.Servers[i].Domains) -> ParseDomainRuleResults],
        geoip \in ParaseIPListResults(c.Servers[i].ExpectIPs) :
       LET r == NameServerBuild(c.Servers[i], answers, geoip)
       IN  /\ parsed' = Append(parsed, r.calls)
           /\ IF r.err # Nil
              THEN /\ ret' = returnError(Base(newError("failed to build nameserver", <<>>), r.err))
                   /\ pc' = "done"
                   /\ UNCHANGED <<config, i>>
              ELSE /\ config' = [config EXCEPT !.NameServer = Append(@, r.ns)]
                   /\ i' = i + 1
                   /\ UNCHANGED <<pc, ret>>
  /\ UNCHANGED <<c, domains, loads, origin>>

\* lines 146-151: collect the keys of c.Hosts and sort them
SortHosts ==
  /\ pc = "servers"
  /\ i > Len(c.Servers)
  /\ \E order \in KeyOrders(c.Hosts) : domains' = SortStrings(order)
  /\ pc' = "hosts"
  /\ i' = 1
  /\ UNCHANGED <<c, config, ret, parsed, loads, origin>>

\* lines 153-252: one pass of the loop over the sorted keys
ClassifyHost ==
  /\ pc = "hosts"
  /\ i <= Len(domains)
  /\ \E lr \in LoadGeositeWithAttrResults :
       LET domain == domains[i]
           r == hostMappings(domain, c.Hosts[domain], lr)
       IN  /\ loads' = loads \o [k \in 1..Len(r.calls) |->
                                   [key |-> domain, file |-> r.calls[k].file, list |-> r.calls[k].list,
                                    result |-> r.calls[k].result]]
           /\ IF r.err # Nil
              THEN /\ ret' = returnError(r.err)
                   /\ pc' = "done"
                   /\ UNCHANGED <<config, i, origin>>
              ELSE /\ config' = [config EXCEPT !.StaticHosts = @ \o r.mappings]
                   /\ origin' = origin \o [k \in 1..Len(r.mappings) |-> domain]
                   /\ i' = i + 1
                   /\ UNCHANGED <<pc, ret>>
  /\ UNCHANGED <<c, domains, parsed>>

\* line 255
Return ==
  /\ pc = "hosts"
  /\ i > Len(domains)
  /\ ret' = [config |-> config, err |-> Nil]
  /\ pc' = "done"
  /\ UNCHANGED <<c, config, i, domains, parsed, loads, origin>>

Next == Start \/ BuildServer \/ SortHosts \/ ClassifyHost \/ Return

\* ------------------------------------------------------------- the inputs
MaxRules == 2

IPv4Addr == [family |-> "IPv4", ip |-> <<1, 2, 3, 4>>, domain |-> ""]

IPv6Addr == [family |-> "IPv6", ip |-> <<0, 0, 0, 0, 0, 0, 0, 0, 0, 0, 0, 0, 0, 0, 0, 1>>, domain |-> ""]

DomainAddr == [family |-> "Domain", ip |-> <<>>, domain |-> "example.org"]

RECURSIVE SubsetsUpTo(_, _)
SubsetsUpTo(S, n) ==
  IF n = 0 THEN {{}} ELSE LET P == SubsetsUpTo(S, n - 1) IN P \cup { p \cup {x} : p \in P, x \in S }

HostMaps(keys, addrs) == UNION { [K -> addrs] : K \in SubsetsUpTo(keys, MaxHosts) }

NoAddress == [Address |-> Nil, Port |-> 0, Domains |-> <<>>, ExpectIPs |-> <<>>]

Plain == [Address |-> IPv4Addr, Port |-> 0, Domains |-> <<>>, ExpectIPs |-> <<>>]

OneRule == [Address |-> DomainAddr, Port |-> 53, Domains |-> <<"full:x.com">>, ExpectIPs |-> <<"10.0.0.0/8">>]

Rules == {"full:x.com", "geosite:cn"}

RuleServers ==
  { [Address |-> IPv6Addr, Port |-> 5353, Domains |-> d, ExpectIPs |-> e] :
      d \in SeqsUpTo(Rules, MaxRules), e \in {<<>>, <<"10.0.0.0/8">>} }

HostKeys ==
  { "domain:a.com", "domain:", "geosite:cn", "geosite:", "regexp:a.*", "regexp:", "keyword:ab", "keyword:",
    "full:b.com", "full:", "dotless:", "dotless:xyz", "dotless:ab.c", "ext:f.dat:l", "ext:nocolon", "ext:a:b:c",
    "ext::", "ext:", "example.com", "", "Domain:x", "domain" }

FewHostKeys == { "domain:a.com", "full:", "b.com" }

Aliases ==
  { "useip", "use_ip", "use-ip",
    "useip4", "useipv4", "use_ip4", "use_ipv4", "use_ip_v4", "use-ip4", "use-ipv4", "use-ip-v4",
    "useip6", "useipv6", "use_ip6", "use_ipv6", "use_ip_v6", "use-ip6", "use-ipv6", "use-ip-v6" }

ToUpperByte(ch) == IF Code(ch) \in 97..122 THEN Chr(Code(ch) - 32) ELSE ch

RECURSIVE ToUpper(_)
ToUpper(s) == IF s = "" THEN "" ELSE ToUpperByte(At(s, 1)) \o ToUpper(SubSeq(s, 2, Len(s)))

Strategies ==
  Aliases \cup { ToUpper(a) : a \in Aliases }
    \cup { "", "bogus", "UseIP", "UseIPv4", "UseIPv6", "Use_IP_v6", "use ip4", "useip46", "use_ip-v4", "ipv6",
           "use_ip_", "USEIPV", "use.ip4" }

InitWith(servers, hosts, clientIPs, strategies) ==
  /\ c \in [Servers : servers, Hosts : hosts, ClientIP : clientIPs, Tag : {"dns"},
            QueryStrategy : strategies, DisableCache : {FALSE}]
  /\ pc = "start"
  /\ config = Nil
  /\ i = 0
  /\ domains = <<>>
  /\ ret = [config |-> Nil, err |-> Nil]
  /\ parsed = <<>>
  /\ loads = <<>>
  /\ origin = <<>>

\* whole documents: any client IP, servers that fail or build, a few hosts
Init ==
  InitWith(SeqsUpTo({NoAddress, Plain, OneRule}, MaxServers), HostMaps(FewHostKeys, {DomainAddr}),
           {Nil, IPv4Addr, IPv6Addr, DomainAddr}, {"UseIPv4"})

Spec == Init /\ [][Next]_vars

\* the static hosts: every kind of key
InitHosts == InitWith({<<Plain>>}, HostMaps(HostKeys, {IPv4Addr, DomainAddr}), {Nil}, {""})

SpecHosts == InitHosts /\ [][Next]_vars

\* the query strategy: every alias in both cases, and strings that are none
InitStrategy == InitWith({<<Plain>>}, [{"example.com"} -> {IPv4Addr}], {Nil}, Strategies)

SpecStrategy == InitStrategy /\ [][Next]_vars

\* one nameserver with up to MaxRules domain rules
InitNameServer ==
  InitWith({ <<s>> : s \in RuleServers \cup {NoAddress} }, [{"example.com"} -> {IPv4Addr}], {Nil}, {""})

SpecNameServer == InitNameServer /\ [][Next]_vars

\* ---------------------------------------------------------- error kinds
NotAnIPAddress == "not an IP address:"

FailedToBuildNameServer == "failed to build nameserver"

EmptyRulePayload ==
  { "empty domain type of rule: ", "empty geosite rule: ", "empty regexp type of rule: ",
    "empty keyword type of rule: ", "empty full domain type of rule: " }

DotInDotlessSubstring == "substr in dotless rule should not contain a dot: "

InvalidExternalResource == "invalid external resource: "

FailedToLoadDomainList == "failed to load domain list: "

\* ------------------------------------------------- vocabulary of the claims
Succeeded == pc = "done" /\ ret.err = Nil

Failed == pc = "done" /\ ret.err # Nil

\* Build failed while classifying the key domains[i]
FailedAtKey == Failed /\ i \in 1..Len(domains)

\* the keys whose classification succeeded so far
Classified == { domains[k] : k \in { k \in 1..Len(domains) : k < i } }

\* the positions of the entries that a key produced
EntriesOf(key) == { j \in 1..Len(origin) : origin[j] = key }

Payload(key, prefix) == SubSeq(key, Len(prefix) + 1, Len(key))

\* byte-wise lexicographic order of two keys
KeyBefore(a, b) ==
  \E n \in 0..Len(a) :
    /\ n <= Len(b)
    /\ \/ n = Len(a) /\ n < Len(b)
       \/ n < Len(a) /\ n < Len(b) /\ Code(At(a, n + 1)) < Code(At(b, n + 1))
    /\ SubSeq(a, 1, n) = SubSeq(b, 1, n)

Count(s, ch) == Cardinality({ k \in 1..Len(s) : At(s, k) = ch })

\* C1: after a successful DNSConfig.Build the entries of staticHosts are in
\* the lexicographic order of the keys they come from: an entry of a smaller
\* key is before every entry of a larger key, so one key's entries are
\* contiguous, whatever order the map yielded its keys in.
StaticHostsOrderedByKey ==
  Succeeded =>
    /\ Len(origin) = Len(ret.config.StaticHosts)
    /\ \A a, b \in 1..Len(origin) : KeyBefore(origin[a], origin[b]) => a < b

StaticHostsOrderedByKeyWitness ==
  /\ Succeeded
  /\ Len(ret.config.StaticHosts) = 3
  /\ origin[1] # origin[2]
  /\ origin[2] = origin[3]

\* C2: every HostMapping of a configuration that DNSConfig.Build returns has
\* a non-empty matchValue (Domain).
MatchValueNonEmpty ==
  Succeeded => \A j \in 1..Len(ret.config.StaticHosts) : ret.config.StaticHosts[j].Domain # ""

\* C3: DNSConfig.Build returns either a complete configuration and no error
\* (one nameserver per declared server, in declared order, every hosts key
\* classified) or an error and no configuration; a nameserver's failure is
\* FailedToBuildNameServer wrapping the inner error.
BuildAllOrNothing ==
  pc = "done" =>
    \/ /\ ret.err = Nil
       /\ ret.config # Nil
       /\ Len(ret.config.NameServer) = Len(c.Servers)
       /\ \A k \in 1..Len(c.Servers) :
            LET ns == ret.config.NameServer[k]
                a == c.Servers[k].Address
            IN  /\ ns.Address.Port = c.Servers[k].Port
                /\ ns.Address.Address =
                     IF a.family = "Domain" THEN [Ip |-> <<>>, Domain |-> a.domain] ELSE [Ip |-> a.ip, Domain |-> ""]
                /\ [j \in 1..Len(ns.OriginalRules) |-> ns.OriginalRules[j].Rule] = c.Servers[k].Domains
       /\ Classified = DOMAIN c.Hosts
       /\ { origin[j] : j \in 1..Len(origin) } \subseteq DOMAIN c.Hosts
       /\ Len(ret.config.StaticHosts) = Len(origin)
    \/ /\ ret.err # Nil
       /\ ret.config = Nil
       /\ Len(parsed) > Len(config.NameServer) =>
            ret.err.msg = FailedToBuildNameServer /\ ret.err.base # Nil

BuildAllOrNothingWitness ==
  /\ Failed
  /\ ret.config = Nil
  /\ Len(config.NameServer) >= 1
  /\ Len(config.StaticHosts) >= 1

\* C4: a nameserver that NameServerConfig.Build returned has one
\* originalRules record per domain rule, in order, with the rule string and
\* the number of matchers the parser returned for it (zero included), and
\* prioritizedDomains is the concatenation of those matchers: rule j's
\* matchers start after the sum of the earlier sizes.
RECURSIVE SizesBefore(_, _)
SizesBefore(records, j) == IF j <= 1 THEN 0 ELSE SizesBefore(records, j - 1) + records[j - 1].Size

OriginalRulesMatchParser ==
  pc # "start" =>
    \A k \in 1..Len(config.NameServer) :
      LET ns == config.NameServer[k]
          rules == c.Servers[k].Domains
          answers == parsed[k]
      IN  /\ Len(ns.OriginalRules) = Len(rules)
          /\ Len(answers) = Len(rules)
          /\ \A j \in 1..Len(rules) :
               /\ ns.OriginalRules[j].Rule = rules[j]
               /\ ns.OriginalRules[j].Size = Len(answers[j].domains)
               /\ \A t \in 1..Len(answers[j].domains) :
                    ns.PrioritizedDomain[SizesBefore(ns.OriginalRules, j) + t] = answers[j].domains[t]
          /\ Len(ns.PrioritizedDomain) = SizesBefore(ns.OriginalRules, Len(rules) + 1)

OriginalRulesMatchParserWitness ==
  /\ pc # "start"
  /\ \E k \in 1..Len(config.NameServer) :
       LET ns == config.NameServer[k]
       IN  /\ Len(ns.OriginalRules) = 2
           /\ ns.OriginalRules[1].Size = 0
           /\ ns.OriginalRules[2].Size = 2
           /\ ns.PrioritizedDomain[1] # ns.PrioritizedDomain[2]

\* C5: the query strategy is USE_IP4 exactly when the lower-cased input is
\* one of the eight ipv4 aliases, USE_IP6 exactly when it is one of the eight
\* ipv6 aliases, and USE_IP for every other string, the empty one included;
\* lines 116-136 fail for no other reason than a client IP that is no IP.
UpperLetters == "ABCDEFGHIJKLMNOPQRSTUVWXYZ"

LowerLetters == "abcdefghijklmnopqrstuvwxyz"

\* l is s with each upper-case ASCII letter replaced by its lower-case letter
IsLowerCased(l, s) ==
  /\ Len(l) = Len(s)
  /\ \A k \in 1..Len(s) :
       IF \E n \in 1..26 : At(UpperLetters, n) = At(s, k)
       THEN \E n \in 1..26 : At(UpperLetters, n) = At(s, k) /\ At(LowerLetters, n) = At(l, k)
       ELSE At(l, k) = At(s, k)

IP4Aliases == {"useip4", "useipv4", "use_ip4", "use_ipv4", "use_ip_v4", "use-ip4", "use-ipv4", "use-ip-v4"}

IP6Aliases == {"useip6", "useipv6", "use_ip6", "use_ipv6", "use_ip_v6", "use-ip6", "use-ipv6", "use-ip-v6"}

ExpectedStrategy(s) ==
  IF \E l \in IP4Aliases : IsLowerCased(l, s) THEN "USE_IP4"
  ELSE IF \E l \in IP6Aliases : IsLowerCased(l, s) THEN "USE_IP6"
  ELSE "USE_IP"

QueryStrategyNormalized ==
  /\ (pc # "start" /\ (c.ClientIP = Nil \/ c.ClientIP.family # "Domain")) =>
       config.QueryStrategy = ExpectedStrategy(c.QueryStrategy)
  /\ Succeeded => ret.config.QueryStrategy = ExpectedStrategy(c.QueryStrategy)
  /\ (Failed /\ parsed = <<>> /\ ~FailedAtKey) => ret.err.msg = NotAnIPAddress /\ c.ClientIP # Nil

QueryStrategyNormalizedWitness ==
  /\ Succeeded
  /\ c.QueryStrategy = "UseIPv6"
  /\ ret.config.QueryStrategy = "USE_IP6"

\* C6: a clientIP that is a domain name makes DNSConfig.Build fail with
\* NotAnIPAddress and no configuration, whatever the servers and hosts are;
\* a clientIP that is an IP literal is stored as its raw bytes; an absent
\* clientIP leaves the output unset and causes no error.
ClientIPValidated ==
  pc # "start" =>
    IF c.ClientIP = Nil
    THEN /\ config.ClientIp = <<>>
         /\ Succeeded => ret.config.ClientIp = <<>>
         /\ Failed => ret.err.msg # NotAnIPAddress
    ELSE IF c.ClientIP.family = "Domain"
    THEN pc = "done" /\ ret.config = Nil /\ ret.err # Nil /\ ret.err.msg = NotAnIPAddress
    ELSE /\ Succeeded => ret.config.ClientIp = c.ClientIP.ip /\ Len(ret.config.ClientIp) \in {4, 16}
         /\ Failed => ret.err.msg # NotAnIPAddress

ClientIPValidatedWitness ==
  /\ Failed
  /\ c.ClientIP = DomainAddr
  /\ ret.err.msg = NotAnIPAddress
  /\ Len(c.Servers) >= 1
  /\ DOMAIN c.Hosts # {}

\* C7: a classified key with prefix domain:, regexp:, keyword: or full: has a
\* non-empty payload and exactly one entry, of type Subdomain, Regex, Keyword
\* or Full, whose value is the payload; these prefixes and geosite: with an
\* empty payload fail with EmptyRulePayload; a key with none of the seven
\* prefixes never fails and has exactly one Full entry whose value is the key.
SimplePrefixes ==
  { [prefix |-> "domain:", type |-> "Subdomain"], [prefix |-> "regexp:", type |-> "Regex"],
    [prefix |-> "keyword:", type |-> "Keyword"], [prefix |-> "full:", type |-> "Full"] }

AllPrefixes == {"domain:", "geosite:", "regexp:", "keyword:", "full:", "dotless:", "ext:"}

Unprefixed(key) == \A prefix \in AllPrefixes : ~HasPrefix(key, prefix)

SimplePrefixClassification ==
  pc # "start" =>
    /\ \A key \in Classified :
         /\ \A sp \in SimplePrefixes :
              HasPrefix(key, sp.prefix) =>
                /\ Payload(key, sp.prefix) # ""
                /\ Cardinality(EntriesOf(key)) = 1
                /\ \A j \in EntriesOf(key) :
                     /\ config.StaticHosts[j].Type = sp.type
                     /\ config.StaticHosts[j].Domain = Payload(key, sp.prefix)
         /\ key # "geosite:"
         /\ Unprefixed(key) =>
              /\ Cardinality(EntriesOf(key)) = 1
              /\ \A j \in EntriesOf(key) :
                   config.StaticHosts[j].Type = "Full" /\ config.StaticHosts[j].Domain = key
    /\ FailedAtKey =>
         LET key == domains[i]
         IN  /\ key \in {"domain:", "geosite:", "regexp:", "keyword:", "full:"} <=> ret.err.msg \in EmptyRulePayload
             /\ ~Unprefixed(key)
             /\ \A sp \in SimplePrefixes : HasPrefix(key, sp.prefix) => key = sp.prefix

SimplePrefixClassificationWitness ==
  /\ FailedAtKey
  /\ domains[i] = "keyword:"
  /\ "domain:a.com" \in Classified
  /\ config.StaticHosts[1].Type = "Subdomain"
  /\ config.StaticHosts[1].Domain = "a.com"

\* C8: a classified dotless: key has a payload without '.' and exactly one
\* Regex entry, ^[^.]*$ for the empty payload and ^[^.]*<payload>[^.]*$
\* otherwise; a dotless: key fails, with DotInDotlessSubstring and no entry,
\* exactly when its payload contains a '.'.
DotlessClassification ==
  pc # "start" =>
    /\ \A key \in Classified :
         HasPrefix(key, "dotless:") =>
           LET substr == Payload(key, "dotless:")
           IN  /\ Count(substr, ".") = 0
               /\ Cardinality(EntriesOf(key)) = 1
               /\ \A j \in EntriesOf(key) :
                    /\ config.StaticHosts[j].Type = "Regex"
                    /\ config.StaticHosts[j].Domain =
                         IF substr = "" THEN "^[^.]*$" ELSE "^[^.]*" \o substr \o "[^.]*$"
    /\ FailedAtKey =>
         LET key == domains[i]
         IN  /\ HasPrefix(key, "dotless:") =>
                  ret.err.msg = DotInDotlessSubstring /\ Count(Payload(key, "dotless:"), ".") > 0
             /\ ret.err.msg = DotInDotlessSubstring => HasPrefix(key, "dotless:")
             /\ EntriesOf(key) = {}

DotlessClassificationWitness ==
  /\ Succeeded
  /\ Classified = {"dotless:", "dotless:xyz"}
  /\ ret.config.StaticHosts[1].Domain = "^[^.]*$"
  /\ ret.config.StaticHosts[2].Domain = "^[^.]*xyz[^.]*$"

\* C9: an ext: key whose payload does not hold exactly one ':' fails with
\* InvalidExternalResource and the loader is not called for it; with exactly
\* one ':' the loader is called once, with the text before the ':' as file
\* and the text after it as list, and a loader error fails the compile with
\* FailedToLoadDomainList.
LoadsOf(key) == { k \in 1..Len(loads) : loads[k].key = key }

ExtClassification ==
  LET reached == Classified \cup (IF FailedAtKey THEN {domains[i]} ELSE {})
  IN  \A key \in reached :
        HasPrefix(key, "ext:") =>
          IF Count(Payload(key, "ext:"), ":") = 1
          THEN /\ Cardinality(LoadsOf(key)) = 1
               /\ \A k \in LoadsOf(key) :
                    /\ key = "ext:" \o loads[k].file \o ":" \o loads[k].list
                    /\ Count(loads[k].file, ":") = 0
                    /\ loads[k].result.err # Nil <=> key \notin Classified
                    /\ loads[k].result.err # Nil =>
                         ret.err.msg = FailedToLoadDomainList /\ ret.err.base = loads[k].result.err
          ELSE /\ LoadsOf(key) = {}
               /\ key \notin Classified
               /\ ret.err.msg = InvalidExternalResource

ExtClassificationWitness ==
  /\ FailedAtKey
  /\ domains[i] = "ext:nocolon"
  /\ "ext:f.dat:l" \in Classified
  /\ Len(loads) = 1
  /\ loads[1].file = "f.dat"
  /\ loads[1].list = "l"

\* C10: a geosite: or ext: key whose load succeeded with items d1..dn has
\* exactly n entries, contiguous and in loader order, the t-th with dt's type
\* and value; every entry carries the target of its key's value: the one
\* address's raw bytes for an IP literal, the domain string otherwise.
ListExpansionAndTarget ==
  pc # "start" =>
    /\ \A k \in 1..Len(loads) :
         loads[k].result.err = Nil =>
           LET d == loads[k].result.domains
               E == EntriesOf(loads[k].key)
           IN  /\ Cardinality(E) = Len(d)
               /\ E # {} =>
                    LET lo == CHOOSE j \in E : \A j2 \in E : j <= j2
                    IN  \A t \in 1..Len(d) :
                          /\ lo + t - 1 \in E
                          /\ config.StaticHosts[lo + t - 1].Type = d[t].Type
                          /\ config.StaticHosts[lo + t - 1].Domain = d[t].Value
    /\ Len(config.StaticHosts) = Len(origin)
    /\ \A j \in 1..Len(config.StaticHosts) :
         LET a == c.Hosts[origin[j]]
             m == config.StaticHosts[j]
         IN  IF a.family \in {"IPv4", "IPv6"}
             THEN m.Ip = <<a.ip>> /\ m.ProxiedDomain = ""
             ELSE m.Ip = <<>> /\ m.ProxiedDomain = a.domain
    /\ Succeeded => ret.config.StaticHosts = config.StaticHosts

ListExpansionAndTargetWitness ==
  /\ Succeeded
  /\ \E k \in 1..Len(loads) :
       /\ Len(loads[k].result.domains) = 2
       /\ loads[k].result.domains[1].Type # loads[k].result.domains[2].Type
  /\ \E j \in 1..Len(ret.config.StaticHosts) : ret.config.StaticHosts[j].Ip # <<>>
  /\ \E j \in 1..Len(ret.config.StaticHosts) : ret.config.StaticHosts[j].ProxiedDomain # ""

====
